---- MODULE Spec2Model ----
(***************************************************************************)
(* ddkwork/fastip: three small Go programs.                                *)
(*                                                                         *)
(*   Spec        the CDN optimizer (src/unnamed/part_000): main,           *)
(*               findBestCDNNode with its probe goroutines, the closer     *)
(*               goroutine and the reduction loop, validateCDNNode and the *)
(*               two result writers.                                       *)
(*   SpecHosts   updateHosts (src/findfastip.go:333-420) run on a hosts    *)
(*               file, with the I/O failures the code can meet.            *)
(*   SpecFastIP  main/getBestIP/findFastestIP (src/findfastip.go:221-330). *)
(*                                                                         *)
(* Latencies and speeds are integers (ms, KB/s); an IP address is the      *)
(* tuple of its octets, the empty string the empty tuple.                  *)
(***************************************************************************)
EXTENDS Integers, Sequences, FiniteSets, TLC

\* ------------------------------------------------------------------ bounds
MaxNodes == 2

MaxLines == 2
MaxRuns == 2
MaxEntries == 2

\* ------------------------------------------------- constants of part_000
Unreachable == -1
InitialBestLatency == 1000
LatencyCeiling == 500
SpeedFloor == 100

DefaultIP == <<140, 82, 113, 3>>
NoIP == <<>>

\* what a probe can measure: testLatency gives -1 or the elapsed ms,
\* testDownloadSpeed gives 0 on a transport error or the KB/s
LatencyValues == {Unreachable, 30, 50, 600}
SpeedValues == {0, 50, 200}

VARIABLES
    pc,         \* main of part_000: where it is
    nodes,      \* the []CDNNode getGitHubCDNNodes returned
    spawned,    \* how many iterations of the go-loop (199-209) have run
    w,          \* w[i]: probe goroutine i, its position and its local n
    wg,         \* the sync.WaitGroup counter
    results,    \* the buffered channel's content
    closed,     \* close(results) has happened
    closerPc,   \* the goroutine of lines 211-214
    bestNode,   \* findBestCDNNode's bestNode
    received,   \* received[i]: results of node i the range loop has read
    calls,      \* calls of saveResults / saveFallbackResult, in order
    panicked,   \* a send on the closed channel happened
    file,       \* the hosts file: its lines, as bufio.Scanner yields them
    old,        \* the hosts file as it was before the last updateHosts
    ipMap,      \* updateHosts' argument
    runs,       \* calls of updateHosts so far
    log,        \* what the last updateHosts printed: counts per message
    err,        \* what the last updateHosts returned
    io,         \* how the file system behaved in the last updateHosts
    mpc,        \* main of findfastip.go: where it is
    di,         \* main's loop over domains: index of the next domain
    lookup      \* the last getBestIP: its domain, its answer, its return

cdnVars == <<pc, nodes, spawned, w, wg, results, closed, closerPc, bestNode,
             received, calls, panicked>>

hostsVars == <<file, old, ipMap, runs, log, err, io>>

fastVars == <<mpc, di, lookup>>

vars == <<cdnVars, hostsVars, fastVars>>

notCdn == <<hostsVars, fastVars>>

Slots == 1..MaxNodes

CDNNode(ip, lat, speed) == [IP |-> ip, Latency |-> lat, Speed |-> speed]

NodeIP(i) == <<10, 0, 0, i>>

IdleWorker == [pc |-> "none", n |-> CDNNode(NoIP, 0, 0)]

\* ------------------------------------------------------------ part_000
validateCDNNode_NoSpeed(node) ==
    node.Latency > 0 /\ node.Latency < LatencyCeiling

validateCDNNode_CeilingOnly(node) ==
    node.Latency < LatencyCeiling

validateCDNNode(node) ==
    node.Latency > 0 /\ node.Latency < LatencyCeiling /\ node.Speed > SpeedFloor

\* the test of the reduction loop, line 218
Better(node, best) ==
    node.Latency > 0 /\ node.Latency < best.Latency

\* a channel one slot short of the number of nodes
Capacity_OneShort == Len(nodes) - 1

\* line 197: make(chan CDNNode, len(nodes))
Capacity == Len(nodes)

\* wg.Wait() returns when the counter is zero
WaitReturns_Early == TRUE

WaitReturns == wg = 0

CdnInit ==
    /\ pc = "start"
    /\ nodes = <<>>
    /\ spawned = 0
    /\ w = [i \in Slots |-> IdleWorker]
    /\ wg = 0
    /\ results = <<>>
    /\ closed = FALSE
    /\ closerPc = "none"
    /\ bestNode = CDNNode(NoIP, 0, 0)
    /\ received = [i \in Slots |-> 0]
    /\ calls = <<>>
    /\ panicked = FALSE

\* main, lines 41-44: the DoH exchange failed
GetNodesFails ==
    /\ pc = "start"
    /\ pc' = "fatal"
    /\ UNCHANGED <<nodes, spawned, w, wg, results, closed, closerPc, bestNode,
                   received, calls, panicked>>
    /\ UNCHANGED notCdn

\* main, line 41: getGitHubCDNNodes returns n nodes (answers plus edge)
GetNodes ==
    /\ pc = "start"
    /\ \E n \in 0..MaxNodes :
         nodes' = [i \in 1..n |-> CDNNode(NodeIP(i), 0, 0)]
    /\ pc' = "findBest"
    /\ UNCHANGED <<spawned, w, wg, results, closed, closerPc, bestNode,
                   received, calls, panicked>>
    /\ UNCHANGED notCdn

\* findBestCDNNode, lines 191-193
FindBestEmpty ==
    /\ pc = "findBest"
    /\ Len(nodes) = 0
    /\ bestNode' = CDNNode(DefaultIP, 0, 0)
    /\ pc' = "validate"
    /\ UNCHANGED <<nodes, spawned, w, wg, results, closed, closerPc,
                   received, calls, panicked>>
    /\ UNCHANGED notCdn

\* findBestCDNNode, lines 199-209: one iteration, wg.Add(1) and go func
Spawn ==
    /\ pc = "findBest"
    /\ Len(nodes) > 0
    /\ spawned < Len(nodes)
    /\ spawned' = spawned + 1
    /\ wg' = wg + 1
    /\ w' = [w EXCEPT ![spawned + 1] = [pc |-> "latency", n |-> nodes[spawned + 1]]]
    /\ UNCHANGED <<pc, nodes, results, closed, closerPc, bestNode,
                   received, calls, panicked>>
    /\ UNCHANGED notCdn

\* findBestCDNNode, lines 211-216: start the closer, initialise bestNode
SpawnCloser ==
    /\ pc = "findBest"
    /\ Len(nodes) > 0
    /\ spawned = Len(nodes)
    /\ closerPc' = "wait"
    /\ bestNode' = CDNNode(NoIP, InitialBestLatency, 0)
    /\ pc' = "range"
    /\ UNCHANGED <<nodes, spawned, w, wg, results, closed, received, calls,
                   panicked>>
    /\ UNCHANGED notCdn

\* goroutine, line 203
TestLatency(i) ==
    /\ pc \notin {"panic"}
    /\ w[i].pc = "latency"
    /\ \E l \in LatencyValues :
         w' = [w EXCEPT ![i] = [pc |-> IF l > 0 THEN "speed" ELSE "send",
                                n |-> [w[i].n EXCEPT !.Latency = l]]]
    /\ UNCHANGED <<pc, nodes, spawned, wg, results, closed, closerPc, bestNode,
                   received, calls, panicked>>
    /\ UNCHANGED notCdn

\* goroutine, lines 204-206
TestDownloadSpeed(i) ==
    /\ pc \notin {"panic"}
    /\ w[i].pc = "speed"
    /\ \E s \in SpeedValues :
         w' = [w EXCEPT ![i] = [pc |-> "send",
                                n |-> [w[i].n EXCEPT !.Speed = s]]]
    /\ UNCHANGED <<pc, nodes, spawned, wg, results, closed, closerPc, bestNode,
                   received, calls, panicked>>
    /\ UNCHANGED notCdn

\* goroutine, line 207: results <- n (cap(results) = len(nodes)); a send on
\* a closed channel panics and ends the process
Send(i) ==
    /\ pc \notin {"panic"}
    /\ w[i].pc = "send"
    /\ IF closed
         THEN /\ panicked' = TRUE
              /\ pc' = "panic"
              /\ UNCHANGED <<w, results>>
         ELSE /\ Len(results) < Capacity
              /\ results' = Append(results, w[i].n)
              /\ w' = [w EXCEPT ![i].pc = "done"]
              /\ UNCHANGED <<pc, panicked>>
    /\ UNCHANGED <<nodes, spawned, wg, closed, closerPc, bestNode, received,
                   calls>>
    /\ UNCHANGED notCdn

\* goroutine, line 202: the deferred wg.Done()
WgDone(i) ==
    /\ pc \notin {"panic"}
    /\ w[i].pc = "done"
    /\ wg' = wg - 1
    /\ w' = [w EXCEPT ![i].pc = "exit"]
    /\ UNCHANGED <<pc, nodes, spawned, results, closed, closerPc, bestNode,
                   received, calls, panicked>>
    /\ UNCHANGED notCdn

\* closer goroutine, lines 212-213
Closer ==
    /\ pc \notin {"panic"}
    /\ closerPc = "wait"
    /\ WaitReturns
    /\ closed' = TRUE
    /\ closerPc' = "exit"
    /\ UNCHANGED <<pc, nodes, spawned, w, wg, results, bestNode, received,
                   calls, panicked>>
    /\ UNCHANGED notCdn

\* reduction loop, lines 217-221: one received value
Recv ==
    /\ pc = "range"
    /\ results # <<>>
    /\ LET node == Head(results) IN
         /\ bestNode' = IF Better(node, bestNode) THEN node ELSE bestNode
         /\ received' = [received EXCEPT ![node.IP[4]] = @ + 1]
    /\ results' = Tail(results)
    /\ UNCHANGED <<pc, nodes, spawned, w, wg, closed, closerPc, calls, panicked>>
    /\ UNCHANGED notCdn

\* reduction loop ends on the closed, drained channel; line 223
RecvClosed ==
    /\ pc = "range"
    /\ results = <<>>
    /\ closed
    /\ pc' = "validate"
    /\ UNCHANGED <<nodes, spawned, w, wg, results, closed, closerPc, bestNode,
                   received, calls, panicked>>
    /\ UNCHANGED notCdn

\* main, lines 50-57
Validate ==
    /\ pc = "validate"
    /\ IF validateCDNNode(bestNode)
         THEN /\ calls' = Append(calls, [fn |-> "saveResults", node |-> bestNode])
              /\ pc' = "saved"
         ELSE /\ calls' = Append(calls, [fn |-> "saveFallbackResult",
                                         node |-> CDNNode(NoIP, 0, 0)])
              /\ pc' = "fallback"
    /\ UNCHANGED <<nodes, spawned, w, wg, results, closed, closerPc, bestNode,
                   received, panicked>>
    /\ UNCHANGED notCdn


\* -------------------------------------------- findfastip.go: updateHosts
\* A line is a sequence of characters; a word (an address, a hostname, the
\* comment mark) counts as one character run and SP is one white space.
\* Words of a line are always separated by white space.
SP == " "

HashWords == {"#"}

Addresses == {"1.1.1.1", "2.2.2.2"}

MappedDomains == {"github.com", "raw.githubusercontent.com"}

\* host lines of a hosts file: the hostnames after the address
HostLists == { <<"github.com">>, <<"raw.githubusercontent.com">>, <<"localhost">>, <<"github.com", "raw.githubusercontent.com">>,
               <<"github.com", "localhost">>, <<"localhost", "github.com">> }

RECURSIVE Join(_, _)
\* strings.Join
Join(elems, sep) ==
    IF Len(elems) = 0 THEN <<>>
    ELSE IF Len(elems) = 1 THEN <<elems[1]>>
    ELSE <<elems[1], sep>> \o Join(Tail(elems), sep)

RECURSIVE TrimLeft(_)
TrimLeft(s) ==
    IF s # <<>> /\ s[1] = SP THEN TrimLeft(Tail(s)) ELSE s

RECURSIVE TrimRight(_)
TrimRight(s) ==
    IF s # <<>> /\ s[Len(s)] = SP THEN TrimRight(SubSeq(s, 1, Len(s) - 1)) ELSE s

\* strings.TrimSpace
TrimSpace(s) == TrimRight(TrimLeft(s))

\* strings.Fields
Fields(s) == SelectSeq(s, LAMBDA c : c # SP)

\* strings.HasPrefix(line, "#")
HasPrefixHash(line) == line # <<>> /\ line[1] \in HashWords

LinePool ==
    { <<a, SP>> \o Join(hs, SP) : a \in Addresses, hs \in HostLists }
    \cup { <<SP, "1.1.1.1", SP, SP, "github.com", SP>>,
           <<"#", SP, "github.com">>,
           <<>>,
           <<"raw.githubusercontent.com">> }

Files == UNION { [1..n -> LinePool] : n \in 0..MaxLines }

IpMaps == UNION { [D -> Addresses] : D \in SUBSET MappedDomains }

NoLog == [updated |-> 0, noop |-> 0, added |-> 0]

NoIO == [open |-> TRUE, scanned |-> 0, create |-> TRUE]

\* lines 374-376: the index of the first field after the address that is a
\* key of ipMap, 0 when there is none
FirstMapped(fields, m) ==
    LET hit == {i \in 2..Len(fields) : fields[i] \in DOMAIN m}
    IN  IF hit = {} THEN 0 ELSE CHOOSE i \in hit : \A j \in hit : i <= j

\* lines 358-394: one iteration of the scan loop, on the accumulator
\* [lines, existing, log]
ScanLine(acc, text, m) ==
    LET line == TrimSpace(text)
        fields == Fields(line)
        i == FirstMapped(fields, m)
    IN  IF HasPrefixHash(line) \/ Len(fields) < 2 \/ i = 0
          THEN [acc EXCEPT !.lines = Append(@, line)]
        ELSE IF fields[1] # m[fields[i]]
          THEN [lines |-> Append(acc.lines,
                                 <<m[fields[i]], SP>> \o Join(Tail(fields), SP)),
                existing |-> acc.existing \cup {fields[i]},
                log |-> [acc.log EXCEPT !.updated = @ + 1]]
          ELSE [lines |-> Append(acc.lines, line),
                existing |-> acc.existing \cup {fields[i]},
                log |-> [acc.log EXCEPT !.noop = @ + 1]]

RECURSIVE Scan(_, _, _)
\* lines 357-395: the scan loop over the first k lines; scanner.Scan()
\* returns false at the end of the file and also on a read error, and
\* scanner.Err() is not consulted
Scan(f, k, m) ==
    IF k = 0 THEN [lines |-> <<>>, existing |-> {}, log |-> NoLog]
    ELSE ScanLine(Scan(f, k - 1, m), f[k], m)

\* the orders in which a map's keys can be ranged over
Orders(S) ==
    { o \in [1..Cardinality(S) -> S] : \A i, j \in DOMAIN o : i # j => o[i] # o[j] }

RECURSIVE AddMissing(_, _, _)
\* lines 398-404, in the iteration order o of the keys that are missing
AddMissing(acc, o, m) ==
    IF o = <<>> THEN acc
    ELSE AddMissing([lines |-> Append(acc.lines, <<m[o[1]], SP, o[1]>>),
                     existing |-> acc.existing,
                     log |-> [acc.log EXCEPT !.added = @ + 1]],
                    Tail(o), m)

HostsInit ==
    /\ file \in Files
    /\ old = file
    /\ ipMap \in IpMaps
    /\ runs = 0
    /\ log = NoLog
    /\ err = "nil"
    /\ io = NoIO

HostsIdle ==
    /\ file = <<>>
    /\ old = <<>>
    /\ ipMap = <<>>
    /\ runs = 0
    /\ log = NoLog
    /\ err = "nil"
    /\ io = NoIO

\* updateHosts, lines 346-349: os.Open fails
updateHostsOpenFails ==
    /\ runs' = runs + 1
    /\ old' = file
    /\ log' = NoLog
    /\ err' = "open"
    /\ io' = [open |-> FALSE, scanned |-> 0, create |-> TRUE]
    /\ UNCHANGED <<file, ipMap>>

\* updateHosts, lines 346-420: the file opens, the scanner yields its first
\* k lines (all of them unless a read fails or a line exceeds the scanner's
\* buffer), the missing keys are added, and os.Create succeeds or fails.
\* Writes to the created file are taken to succeed.
updateHosts ==
    /\ \E k \in 0..Len(file), createOk \in BOOLEAN :
         LET scanned == Scan(file, k, ipMap)
             missing == DOMAIN ipMap \ scanned.existing
         IN  \E o \in Orders(missing) :
               LET acc == AddMissing(scanned, o, ipMap) IN
                 /\ log' = acc.log
                 /\ io' = [open |-> TRUE, scanned |-> k, create |-> createOk]
                 /\ IF createOk
                      THEN file' = acc.lines /\ err' = "nil"
                      ELSE file' = file /\ err' = "create"
    /\ runs' = runs + 1
    /\ old' = file
    /\ UNCHANGED ipMap

\* a caller runs updateHosts(ipMap) on the hosts file
UpdateHostsOpenFails ==
    /\ runs < MaxRuns
    /\ updateHostsOpenFails
    /\ UNCHANGED <<cdnVars, fastVars>>

UpdateHosts ==
    /\ runs < MaxRuns
    /\ updateHosts
    /\ UNCHANGED <<cdnVars, fastVars>>

\* ------------------------- findfastip.go: main, getBestIP, findFastestIP
domains == <<"github.com", "raw.githubusercontent.com",
             "github.global.ssl.fastly.net", "assets-cdn.github.com">>

\* the characters of the second argument of strings.ContainsAny, line 301:
\* bei jing shang hai guang zhou shen zhen cheng du
DomesticChars == {"bei", "jing", "shang", "hai", "guang", "zhou", "shen",
                  "zhen", "cheng", "du"}

\* strings.ContainsAny(name, chars): some character of name is in chars
ContainsAny(name, chars) == \E i \in 1..Len(name) : name[i] \in chars

\* net.ParseIP(s) != nil
ParseIPOk(s) == s \in Addresses

\* entries of PingResult.Data.NodeList
PingNode(name, ip, timeout, avg) ==
    [NodeName |-> name, IP |-> ip, Timeout |-> timeout, AvgTime |-> avg]

\* two domestic answers of equal delay, a slow one, a timed-out one, one
\* from a node outside the filter and one whose address does not parse
NodeEntries ==
    { PingNode(<<"bei", "jing">>, "1.1.1.1", 0, 20),
      PingNode(<<"shang", "hai">>, "2.2.2.2", 0, 20),
      PingNode(<<"bei", "jing">>, "2.2.2.2", 0, 1200),
      PingNode(<<"bei", "jing">>, "1.1.1.1", 1, 20),
      PingNode(<<"xiang", "gang">>, "1.1.1.1", 0, 20),
      PingNode(<<"bei", "jing">>, "999.1.1.1", 0, 20) }

PingResults == UNION { [1..n -> NodeEntries] : n \in 0..MaxEntries }

\* lines 294-304: ips, the map from IP to its list of delays
Collect(list) ==
    LET keep == SelectSeq(list, LAMBDA node :
                    ~(node.Timeout > 0)
                    /\ ContainsAny(node.NodeName, DomesticChars))
    IN  [ip \in {keep[i].IP : i \in 1..Len(keep)} |->
            LET mine == SelectSeq(keep, LAMBDA node : node.IP = ip)
            IN  [i \in 1..Len(mine) |-> mine[i].AvgTime]]

RECURSIVE Sum(_)
Sum(delays) == IF delays = <<>> THEN 0 ELSE delays[1] + Sum(Tail(delays))

RECURSIVE Fastest(_, _, _)
\* lines 307-318, ranging over the keys of ips in the order o; best is
\* [ip, sum, n] with minAvg = sum / n (the comparison avg < minAvg is made
\* on the cross products, exactly)
Fastest(ips, o, best) ==
    IF o = <<>> THEN best
    ELSE LET delays == ips[o[1]]
             sum == Sum(delays)
             n == Len(delays)
         IN  Fastest(ips, Tail(o),
                     IF sum * best.n < best.sum * n
                       THEN [ip |-> o[1], sum |-> sum, n |-> n]
                       ELSE best)

\* lines 287-330, with the map's iteration order o
findFastestIP_NoEmptyCheck(result, o) ==
    LET best == Fastest(Collect(result), o, [ip |-> "", sum |-> 1000, n |-> 1])
    IN  IF ~ParseIPOk(best.ip) THEN [ip |-> "", err |-> "invalid"]
        ELSE [ip |-> best.ip, err |-> "nil"]

findFastestIP(result, o) ==
    LET best == Fastest(Collect(result), o, [ip |-> "", sum |-> 1000, n |-> 1])
    IN  IF best.ip = "" THEN [ip |-> "", err |-> "notfound"]
        ELSE IF ~ParseIPOk(best.ip) THEN [ip |-> "", err |-> "invalid"]
        ELSE [ip |-> best.ip, err |-> "nil"]

NoLookup == [domain |-> "", entries |-> 0, passed |-> 0, err |-> "nil"]

\* how many entries of an answer are not timed out and carry a domestic
\* node name
Passing(result) ==
    Cardinality({ i \in 1..Len(result) :
        result[i].Timeout = 0
        /\ \E c \in 1..Len(result[i].NodeName) :
             result[i].NodeName[c] \in DomesticChars })

FastInit ==
    /\ mpc = "loop"
    /\ di = 1
    /\ lookup = NoLookup

FastIdle ==
    /\ mpc = "idle"
    /\ di = 1
    /\ lookup = NoLookup

\* main, lines 224-231 with getBestIP, lines 246-280: the request, the read
\* or the JSON decoding fails
GetBestIPFails ==
    /\ mpc = "loop"
    /\ di <= Len(domains)
    /\ lookup' = [domain |-> domains[di], entries |-> 0, passed |-> 0,
                  err |-> "transport"]
    /\ di' = di + 1
    /\ UNCHANGED <<mpc, file, old, ipMap, runs, log, err, io, cdnVars>>

\* main, lines 224-231 with getBestIP, lines 246-284: an answer arrives
GetBestIP ==
    /\ mpc = "loop"
    /\ di <= Len(domains)
    /\ \E result \in PingResults :
         \E o \in Orders(DOMAIN Collect(result)) :
           LET r == findFastestIP(result, o) IN
             /\ lookup' = [domain |-> domains[di], entries |-> Len(result),
                           passed |-> Passing(result), err |-> r.err]
             /\ ipMap' = IF r.err = "nil"
                           THEN [d \in DOMAIN ipMap \cup {domains[di]} |->
                                    IF d = domains[di] THEN r.ip ELSE ipMap[d]]
                           ELSE ipMap
    /\ di' = di + 1
    /\ UNCHANGED <<mpc, file, old, runs, log, err, io, cdnVars>>

\* main, line 234: the loop is over
LoopEnds ==
    /\ mpc = "loop"
    /\ di > Len(domains)
    /\ mpc' = IF Cardinality(DOMAIN ipMap) > 0 THEN "update" ELSE "flush"
    /\ UNCHANGED <<di, lookup, hostsVars, cdnVars>>

\* main, lines 235-237
MainUpdateHostsOpenFails ==
    /\ mpc = "update"
    /\ updateHostsOpenFails
    /\ mpc' = "flush"
    /\ UNCHANGED <<di, lookup, cdnVars>>

MainUpdateHosts ==
    /\ mpc = "update"
    /\ updateHosts
    /\ mpc' = "flush"
    /\ UNCHANGED <<di, lookup, cdnVars>>

\* main, lines 241-242: flushDNS, whose failure is only printed
FlushDNS ==
    /\ mpc = "flush"
    /\ mpc' = "done"
    /\ UNCHANGED <<di, lookup, hostsVars, cdnVars>>

Init == CdnInit /\ HostsIdle /\ FastIdle

Next ==
    \/ GetNodesFails
    \/ GetNodes
    \/ FindBestEmpty
    \/ Spawn
    \/ SpawnCloser
    \/ \E i \in Slots : TestLatency(i)
    \/ \E i \in Slots : TestDownloadSpeed(i)
    \/ \E i \in Slots : Send(i)
    \/ \E i \in Slots : WgDone(i)
    \/ Closer
    \/ Recv
    \/ RecvClosed
    \/ Validate

Spec == Init /\ [][Next]_vars

\* Go's scheduler runs some goroutine as long as one can take a step, and
\* every probe ends (DialTimeout of 2 s, client timeout of 5 s): the program
\* does not stop while a step of it is possible
SpecLive == Init /\ [][Next]_vars /\ WF_vars(Next)

InitHosts == CdnInit /\ HostsInit /\ FastIdle

NextHosts ==
    \/ UpdateHostsOpenFails
    \/ UpdateHosts

SpecHosts == InitHosts /\ [][NextHosts]_vars

\* the hosts files main of findfastip.go is run on
InitFastIP ==
    /\ CdnInit
    /\ FastInit
    /\ file \in { <<>>, << <<"1.1.1.1", SP, "github.com">> >> }
    /\ old = file
    /\ ipMap = <<>>
    /\ runs = 0
    /\ log = NoLog
    /\ err = "nil"
    /\ io = NoIO

NextFastIP ==
    \/ GetBestIPFails
    \/ GetBestIP
    \/ LoopEnds
    \/ MainUpdateHostsOpenFails
    \/ MainUpdateHosts
    \/ FlushDNS

SpecFastIP == InitFastIP /\ [][NextFastIP]_vars

\* ---------------------------------------------------- claims on part_000
Returned == pc \in {"validate", "saved", "fallback"}

Finished == pc \in {"saved", "fallback"}

Probed == 1..Len(nodes)

\* the validity thresholds as the specification words them
IsValid(n) ==
    n.Latency > 0 /\ n.Latency < LatencyCeiling /\ n.Speed > SpeedFloor

IsReachable(n) == n.Latency > 0 /\ n.Latency < InitialBestLatency

FirstMinIndex ==
    LET reach == {i \in Probed : IsReachable(w[i].n)}
        mins == {i \in reach : \A j \in reach : w[i].n.Latency <= w[j].n.Latency}
    IN  CHOOSE i \in mins : \A j \in mins : i <= j

InChannel(i) == Cardinality({k \in 1..Len(results) : results[k].IP = NodeIP(i)})

\* C1: whenever some probed candidate is valid, the run reports a candidate
\* that is valid and has the least latency among the valid candidates.
\* (Stated for the runs in which no two reachable candidates measure the
\* same latency, so that the order of completion plays no part.)
C1_BestValidChosen ==
    (/\ Finished
     /\ \E i \in Probed : IsValid(w[i].n)
     /\ \A i, j \in Probed :
          (i # j /\ IsReachable(w[i].n)) => w[i].n.Latency # w[j].n.Latency) =>
        /\ Len(calls) = 1
        /\ calls[1].fn = "saveResults"
        /\ IsValid(calls[1].node)
        /\ \A j \in Probed :
             IsValid(w[j].n) => calls[1].node.Latency <= w[j].n.Latency

\* C2: saveResults is called only with a node whose latency is present and
\* below 500 ms and whose speed is above 100 KB/s; every other run that
\* reaches selection calls saveFallbackResult; exactly one of the two is
\* called, once.
C2_ChosenOnlyIfValid ==
    /\ \A k \in 1..Len(calls) :
         calls[k].fn = "saveResults" =>
             IsValid(calls[k].node) /\ calls[k].node = bestNode
    /\ Finished => Len(calls) = 1
    /\ ~Finished => calls = <<>>
    /\ (Finished /\ ~IsValid(bestNode)) => calls[1].fn = "saveFallbackResult"
    /\ (Finished /\ IsValid(bestNode)) => calls[1].fn = "saveResults"

C2_Witness ==
    /\ pc = "saved"
    /\ calls[1].fn = "saveResults"
    /\ \E i \in Probed : w[i].n.Latency > 0 /\ ~IsValid(w[i].n)

\* C3: with an empty candidate list, or with every candidate unreachable,
\* the run ends in the fallback branch, the default address is not reported,
\* and once the list is obtained no step is a fatal exit or a panic.
C3_EmptyOrUnreachableFallsBack ==
    /\ [](  (Finished /\ (Len(nodes) = 0
                          \/ \A i \in Probed : w[i].n.Latency <= 0))
            => /\ pc = "fallback"
               /\ Len(calls) = 1
               /\ calls[1].fn = "saveFallbackResult" )
    /\ []( (Len(nodes) = 0 /\ bestNode.IP = DefaultIP)
            => \A k \in 1..Len(calls) : calls[k].fn # "saveResults" )
    /\ [][ pc # "start" => pc' \notin {"fatal", "panic"} ]_vars

C3_Witness ==
    /\ pc = "fallback"
    /\ Len(nodes) = 0
    /\ bestNode.IP = DefaultIP

\* C4: when findBestCDNNode has returned, every input node has produced one
\* result, the loop has read it, no probe goroutine is still running; and
\* at every moment a node's result is in the channel or read at most once.
C4_AllResultsConsumedAtReturn ==
    /\ \A i \in Probed :
         /\ received[i] <= 1
         /\ InChannel(i) + received[i] =
                (IF i <= spawned /\ w[i].pc \in {"done", "exit"} THEN 1 ELSE 0)
    /\ (Returned /\ Len(nodes) > 0) =>
         /\ results = <<>>
         /\ \A i \in Probed : received[i] = 1 /\ w[i].pc = "exit"

C4_Witness ==
    /\ pc = "validate"
    /\ Len(nodes) >= 2
    /\ \E i \in Probed :
         /\ w[i].n.Latency > 0
         /\ \A j \in Probed \ {i} : w[j].n.Latency = Unreachable
    /\ \A i \in Probed : received[i] = 1

\* C5: with the measured latencies fixed, findBestCDNNode returns the
\* candidate that is first in input order among those of least latency.
C5_TieBreakInputOrder ==
    (Returned /\ \E i \in Probed : IsReachable(w[i].n)) =>
        bestNode.IP = nodes[FirstMinIndex].IP

\* ------------------------------------------------- claims on updateHosts
\* a line that associates an address with hostnames
IsHostLine(line) ==
    LET t == TrimSpace(line) IN ~HasPrefixHash(t) /\ Len(Fields(t)) >= 2

Lists(line, h) ==
    IsHostLine(line) /\ \E i \in 2..Len(Fields(line)) : Fields(line)[i] = h

AddrOf(line) == Fields(line)[1]

Listing(f, h) == {i \in 1..Len(f) : Lists(f[i], h)}

HostNames == MappedDomains \cup {"localhost"}

\* the last run of updateHosts returned nil after reading the whole file
CompleteRun == runs > 0 /\ err = "nil" /\ io.open /\ io.scanned = Len(old)

\* C6: after a successful updateHosts, every host line listing a key d of
\* ipMap carries ipMap[d]; a listed d gets no new line and an absent d gets
\* exactly one. (Stated for the runs that read the whole file.)
C6_MappedDomainsResolve ==
    CompleteRun =>
        \A d \in DOMAIN ipMap :
            /\ \A i \in Listing(file, d) : AddrOf(file[i]) = ipMap[d]
            /\ Cardinality(Listing(file, d)) =
                  (IF Listing(old, d) = {} THEN 1
                   ELSE Cardinality(Listing(old, d)))

\* C7: a run of updateHosts that follows a successful run prints no update
\* and no addition and leaves the file as the run before wrote it. (Stated
\* for the second runs that return nil themselves.)
C7_SecondRunIsNoOp ==
    [][ (runs >= 1 /\ err = "nil" /\ runs' = runs + 1 /\ err' = "nil")
            => (log'.updated = 0 /\ log'.added = 0 /\ file' = file) ]_vars

\* C8: a run in which opening, reading or creating the file fails returns
\* an error and leaves the file as it was.
C8_FailedReadKeepsFile ==
    (runs > 0 /\ (~io.open \/ io.scanned < Len(old) \/ ~io.create))
        => (err # "nil" /\ file = old)

\* C10: a hostname that is no key of ipMap keeps, on every line listing it,
\* the address it had. (Stated for the runs that read the whole file.)
C10_UnmappedHostsKeepAddress ==
    CompleteRun =>
        \A h \in HostNames \ DOMAIN ipMap :
            \A i \in Listing(old, h) :
                /\ i <= Len(file)
                /\ Lists(file[i], h)
                /\ AddrOf(file[i]) = AddrOf(old[i])

\* With every read succeeding, updateHosts is idempotent: a run that reads
\* the whole file after a run that returned nil changes and prints nothing.
IdempotentWhenReadsComplete ==
    [][ (runs >= 1 /\ err = "nil" /\ runs' = runs + 1
         /\ io'.open /\ io'.scanned = Len(file))
            => (log'.updated = 0 /\ log'.added = 0
                /\ (io'.create => file' = file)) ]_vars

\* A line listing an unmapped hostname and no key of ipMap is kept as it
\* was, white space at its ends aside, by a run that reads the whole file.
UnsharedLinesKept ==
    CompleteRun =>
        \A i \in 1..Len(old) :
            (\A d \in DOMAIN ipMap : ~Lists(old[i], d))
                => i <= Len(file) /\ file[i] = TrimSpace(old[i])

\* ------------------------------------------------ claims on findFastestIP
NoneDomestic == lookup.entries > 0 /\ lookup.passed = 0

\* C9 as stated: an answer with entries none of which passes the filter is
\* no error, and the domain still gets an entry in ipMap.
C9_NoDomesticEntryFallsBack ==
    NoneDomestic => (lookup.err = "nil" /\ lookup.domain \in DOMAIN ipMap)

\* C9 as amended: for such an answer findFastestIP returns its "not found"
\* error and main skips the domain, which gets no entry in ipMap.
C9_NoDomesticEntryIsAnError ==
    NoneDomestic => (lookup.err = "notfound" /\ lookup.domain \notin DOMAIN ipMap)

C9_Witness ==
    /\ NoneDomestic
    /\ mpc = "done"
    /\ lookup.domain = domains[Len(domains)]
    /\ DOMAIN ipMap = {domains[1]}

\* ------------------------------------------------ claims on termination
AllExited == \A i \in Probed : w[i].pc = "exit"

\* C11: for a non-empty list findBestCDNNode eventually returns with every
\* goroutine ended; a goroutine at its send always finds room in the
\* channel; the channel is closed once, by the closer, after all N sends;
\* and the loop ends having read N results.
C11_FindBestReturns ==
    /\ (pc = "findBest" /\ Len(nodes) > 0)
          ~> (Returned /\ AllExited /\ closerPc = "exit")
    /\ [](\A i \in Probed : (i <= spawned /\ w[i].pc = "send")
                               => (~closed /\ ENABLED Send(i)))
    /\ [](closed => (spawned = Len(nodes)
                     /\ \A i \in Probed : w[i].pc \in {"done", "exit"}))
    /\ [][ (closed' # closed)
             => (~closed /\ closerPc = "wait" /\ closerPc' = "exit") ]_vars
    /\ [][ closerPc = "exit" => closerPc' = "exit" ]_vars
    /\ []((Returned /\ Len(nodes) > 0)
             => (closed /\ results = <<>>
                 /\ \A i \in Probed : received[i] = 1))
    /\ [](~panicked)

\* the channel holds all N results at once and nobody is blocked
C11_Witness ==
    /\ pc = "range"
    /\ Len(nodes) >= 2
    /\ Len(results) = Len(nodes)
    /\ ~closed

====
